---- MODULE Spec2Model ----
(***************************************************************************)
(* Credit-Risk-Predictor: the feature encoder, risk classification,        *)
(* background sampler and attribution pipeline of predict.py, and the      *)
(* request handlers of api.py / app.py that call them.                     *)
(*                                                                         *)
(* Representation.                                                         *)
(*  - A column name or attribute key is the tuple of its "_"-separated     *)
(*    segments: "loan_grade_B" is <<"loan","grade","B">>.  str.startswith   *)
(*    of a prefix ending in "_" and str.endswith of a pattern starting     *)
(*    with "_" are decided exactly on segments.                            *)
(*  - A Python number is <<"int", v>> or <<"float", h>> with h in          *)
(*    hundredths; a float is its number of hundredths.                     *)
(*  - A probability is an integer number of ten-thousandths.               *)
(***************************************************************************)
EXTENDS Integers, Sequences, FiniteSets, TLC

VARIABLES
    model,          \* api.py / app.py global `model`: "None" or "Loaded"
    feature_names,  \* CreditRiskModel.feature_names
    shap,           \* predict.py module global `shap`: "None" or "Installed"
    rng,            \* state of the generator most recently created by _make_background
    last,           \* the last operation: its name, arguments and what it returned
    bgFirst         \* history: for each n, the first matrix _make_background(n) returned

vars == <<model, feature_names, shap, rng, last, bgFirst>>

Range(s) == {s[i] : i \in DOMAIN s}

(***************************************************************************)
(* Attribute keys and column names                                         *)
(***************************************************************************)
person_age == <<"person", "age">>
person_income == <<"person", "income">>
person_emp_length == <<"person", "emp", "length">>
loan_amnt == <<"loan", "amnt">>
loan_int_rate == <<"loan", "int", "rate">>
loan_percent_income == <<"loan", "percent", "income">>
cb_person_cred_hist_length == <<"cb", "person", "cred", "hist", "length">>
person_home_ownership == <<"person", "home", "ownership">>
loan_intent == <<"loan", "intent">>
loan_grade == <<"loan", "grade">>
cb_person_default_on_file == <<"cb", "person", "default", "on", "file">>

NumericKeys ==
    <<person_age, person_income, person_emp_length, loan_amnt, loan_int_rate,
      loan_percent_income, cb_person_cred_hist_length>>

GroupKeys ==
    <<person_home_ownership, loan_intent, loan_grade, cb_person_default_on_file>>

\* The hardcoded schema _infer_feature_names falls back to.
default_features ==
    << person_age, person_income, person_emp_length, loan_amnt, loan_int_rate,
       loan_percent_income, cb_person_cred_hist_length,
       person_home_ownership \o <<"MORTGAGE">>,
       person_home_ownership \o <<"OWN">>,
       person_home_ownership \o <<"RENT">>,
       person_home_ownership \o <<"OTHER">>,
       loan_intent \o <<"DEBTCONSOLIDATION">>,
       loan_intent \o <<"EDUCATION">>,
       loan_intent \o <<"HOMEIMPROVEMENT">>,
       loan_intent \o <<"MEDICAL">>,
       loan_intent \o <<"PERSONAL">>,
       loan_intent \o <<"VENTURE">>,
       loan_grade \o <<"B">>,
       loan_grade \o <<"C">>,
       loan_grade \o <<"D">>,
       loan_grade \o <<"E">>,
       loan_grade \o <<"F">>,
       loan_grade \o <<"G">>,
       cb_person_default_on_file \o <<"Y">> >>

\* Feature lists read from the artifact (feature_names_in_ or the booster's
\* feature_names): whatever the model was trained with.
IntrospectedFeatures ==
    { \* get_dummies(drop_first=True) layout, categorical columns first
      << person_home_ownership \o <<"OTHER">>,
         person_home_ownership \o <<"OWN">>,
         person_home_ownership \o <<"RENT">>,
         loan_intent \o <<"EDUCATION">>,
         loan_intent \o <<"MEDICAL">>,
         loan_grade \o <<"B">>,
         loan_grade \o <<"C">>,
         cb_person_default_on_file \o <<"Y">>,
         person_age, person_income, loan_amnt, loan_int_rate >>,
      \* categories spelled with "_", both flag values kept, an unrelated column
      << person_age,
         loan_int_rate,
         loan_intent \o <<"HOME", "IMPROVEMENT">>,
         loan_intent \o <<"IMPROVEMENT">>,
         loan_grade \o <<"A">>,
         loan_grade \o <<"B">>,
         cb_person_default_on_file \o <<"N">>,
         cb_person_default_on_file \o <<"Y">>,
         <<"debt", "to", "income">> >> }

Schemas == {default_features} \cup IntrospectedFeatures

(***************************************************************************)
(* Python values                                                           *)
(***************************************************************************)
IntVal(v) == <<"int", v>>
FloatVal(h) == <<"float", h>>

\* float(x)
Float(x) == IF x[1] = "int" THEN x[2] * 100 ELSE x[2]

ONE == Float(FloatVal(100))
ZERO == Float(FloatVal(0))

\* str.upper() on one segment
UpperSeg(s) ==
    CASE s = "own" -> "OWN"
      [] s = "Own" -> "OWN"
      [] s = "rent" -> "RENT"
      [] s = "medical" -> "MEDICAL"
      [] s = "improvement" -> "IMPROVEMENT"
      [] s = "home" -> "HOME"
      [] s = "a" -> "A"
      [] s = "b" -> "B"
      [] s = "n" -> "N"
      [] s = "y" -> "Y"
      [] OTHER -> s

\* str(v).upper()
Upper(v) == [i \in DOMAIN v |-> UpperSeg(v[i])]

\* The empty string: one empty segment.
EmptyStr == <<"">>

\* inputs.get(key, default)
Get(inputs, key, default) == IF key \in DOMAIN inputs THEN inputs[key] ELSE default

\* col.startswith(prefix + "_")
StartsWith(col, prefix) ==
    /\ Len(col) > Len(prefix)
    /\ SubSeq(col, 1, Len(prefix)) = prefix

\* col.endswith("_" + val)
EndsWith(col, val) ==
    /\ Len(col) > Len(val)
    /\ SubSeq(col, Len(col) - Len(val) + 1, Len(col)) = val

(***************************************************************************)
(* CreditRiskModel: defaults, one-hot grouping, the feature encoder        *)
(***************************************************************************)
ideal_defaults ==
    person_age :> IntVal(35)
    @@ person_income :> IntVal(85000)
    @@ person_emp_length :> IntVal(8)
    @@ loan_amnt :> IntVal(10000)
    @@ loan_int_rate :> FloatVal(1100)
    @@ loan_percent_income :> FloatVal(15)
    @@ cb_person_cred_hist_length :> IntVal(10)
    @@ person_home_ownership :> <<"OWN">>
    @@ loan_intent :> <<"DEBTCONSOLIDATION">>
    @@ loan_grade :> <<"A">>
    @@ cb_person_default_on_file :> <<"N">>

\* Group the dummy columns of self.feature_names by prefix.
_one_hot_columns ==
    [g \in Range(GroupKeys) |->
        SelectSeq(feature_names, LAMBDA col : StartsWith(col, g))]

\* The test under which build_feature_vector sets data[col] = 1.0, for a
\* column col of group g and the uppercased input value val of that group.
ColumnSelected(g, col, val) ==
    IF g = cb_person_default_on_file
    THEN EndsWith(col, <<"Y">>) /\ val = <<"Y">>
    ELSE EndsWith(col, val)

\* A frame built from the recognised columns only.
RowColumns_recognised ==
    SelectSeq(feature_names,
              LAMBDA c : \/ c \in Range(NumericKeys)
                         \/ \E g \in Range(GroupKeys) : StartsWith(c, g))

\* The columns of the returned frame.
RowColumns == feature_names

\* Employment length read from the credit-history attribute.
numeric_map_copied(inputs) ==
    [k \in Range(NumericKeys) |->
        Float(Get(inputs,
                  IF k = person_emp_length THEN cb_person_cred_hist_length ELSE k,
                  IntVal(0)))]

\* The numeric assignments of build_feature_vector.
numeric_map(inputs) ==
    [k \in Range(NumericKeys) |-> Float(Get(inputs, k, IntVal(0)))]

\* float() of a numeric attribute raises on anything that is not a number.
BuildRaises(inputs) ==
    \E k \in Range(NumericKeys) : Get(inputs, k, IntVal(0))[1] \notin {"int", "float"}

build_feature_vector(inputs) ==
    LET numerics == numeric_map(inputs)
        groups == _one_hot_columns
        val == [g \in Range(GroupKeys) |-> Upper(Get(inputs, g, EmptyStr))]
        selected ==
            UNION { {col \in Range(groups[g]) : ColumnSelected(g, col, val[g])} :
                    g \in Range(GroupKeys) }
        data ==
            [name \in Range(feature_names) |->
                IF name \in selected
                THEN ONE
                ELSE IF name \in Range(NumericKeys) THEN numerics[name] ELSE ZERO]
        columns == RowColumns
    IN  [columns |-> columns,
         values |-> [i \in 1..Len(columns) |-> data[columns[i]]]]

(***************************************************************************)
(* Raw Input Records the encoder is exercised with                         *)
(***************************************************************************)
NoAttrs == [k \in {} |-> EmptyStr]

Optional(key, values) == {NoAttrs} \cup {key :> v : v \in values}

DefaultNumerics == [k \in Range(NumericKeys) |-> ideal_defaults[k]]

PartialNumerics == person_age :> IntVal(22) @@ loan_int_rate :> FloatVal(1550)

CategoricalInputs ==
    { a @@ b @@ c @@ d :
        a \in Optional(person_home_ownership, {<<"OWN">>, <<"rent">>, <<"CONDO">>}),
        b \in Optional(loan_intent,
                 {<<"DEBTCONSOLIDATION">>, <<"IMPROVEMENT">>, <<"home", "improvement">>}),
        c \in Optional(loan_grade, {<<"A">>, <<"b">>}),
        d \in Optional(cb_person_default_on_file, {<<"N">>, <<"Y">>, <<"y">>}) }

\* Every categorical combination with the default numerics; some attributes
\* or all of them absent.
InputRecords ==
    { DefaultNumerics @@ c : c \in CategoricalInputs }
    \cup { PartialNumerics @@ c :
             c \in {NoAttrs, loan_grade :> <<"b">>, person_home_ownership :> <<"rent">>} }
    \cup {NoAttrs}

(***************************************************************************)
(* State                                                                   *)
(***************************************************************************)
NoCall == [op |-> "none"]

\* No generator has been created yet.
NoGenerator == [seed |-> 0, counter |-> 0]

NoBackground == [n \in {} |-> <<>>]

\* A model object constructed from the artifact, with any of the feature lists.
InitLoaded ==
    /\ model = "Loaded"
    /\ feature_names \in Schemas
    /\ shap = "Installed"
    /\ rng = NoGenerator
    /\ last = NoCall
    /\ bgFirst = NoBackground

\* model.build_feature_vector(inputs)
BuildFeatureVector(inputs) ==
    /\ model = "Loaded"
    /\ ~BuildRaises(inputs)
    /\ last' = [op |-> "build_feature_vector", inputs |-> inputs,
                ret |-> build_feature_vector(inputs)]
    /\ UNCHANGED <<model, feature_names, shap, rng, bgFirst>>

NextEncoder == \E inputs \in InputRecords : BuildFeatureVector(inputs)

SpecEncoder == InitLoaded /\ [][NextEncoder]_vars

(***************************************************************************)
(* Feature encoder: claims                                                 *)
(***************************************************************************)
Built == last.op = "build_feature_vector"

\* The positions of the row whose column belongs to group g, as grouped by
\* _one_hot_columns.
GroupPositions(row, g) ==
    {i \in DOMAIN row.columns : row.columns[i] \in Range(_one_hot_columns[g])}

\* The part of a column name after the group prefix.
Suffix(col, g) == SubSeq(col, Len(g) + 1, Len(col))

\* C1: the row build_feature_vector returns has exactly the columns of
\* self.feature_names, in the same order, and one value per column.
C1_ColumnsAreFeatureNames ==
    Built =>
        /\ last.ret.columns = feature_names
        /\ DOMAIN last.ret.values = DOMAIN feature_names

\* C1 witness: a record with attributes encoded against a feature list read
\* from the artifact that holds a column the encoder does not know.
C1_Witness ==
    /\ Built
    /\ <<"debt", "to", "income">> \in Range(feature_names)
    /\ loan_grade \in DOMAIN last.inputs
    /\ Len(last.ret.values) = Len(feature_names)

\* C2: in every encoded row, each categorical group has at most one
\* indicator column holding 1.0, for every input and every feature list.
C2_AtMostOneIndicatorPerGroup ==
    Built =>
        \A g \in Range(GroupKeys) :
            Cardinality({i \in GroupPositions(last.ret, g) : last.ret.values[i] = ONE}) <= 1

\* C4: a group's indicator column is 1.0 exactly when its suffix equals the
\* uppercased input value of that group, in all four groups; with no such
\* column, or the attribute missing, the whole group is 0.0.
C4_IndicatorIffSuffixEqualsValue ==
    Built =>
        \A g \in Range(GroupKeys) :
            \A i \in GroupPositions(last.ret, g) :
                last.ret.values[i] =
                    IF /\ g \in DOMAIN last.inputs
                       /\ Suffix(last.ret.columns[i], g) = Upper(last.inputs[g])
                    THEN ONE
                    ELSE ZERO

\* The published defaults as floats, in hundredths.
ExpectedDefaults ==
    person_age :> 3500
    @@ person_income :> 8500000
    @@ person_emp_length :> 800
    @@ loan_amnt :> 1000000
    @@ loan_int_rate :> 1100
    @@ loan_percent_income :> 15
    @@ cb_person_cred_hist_length :> 1000

\* The default of group g is the group's implicit baseline: no column of the
\* group carries it.
DefaultIsBaseline(g) ==
    \A col \in Range(_one_hot_columns[g]) : Suffix(col, g) # ideal_defaults[g]

\* C5: encoding ideal_defaults() puts the default value in every numeric
\* column, and under the hardcoded schema, which holds all seven, leaves at
\* 0.0 every indicator column of a group whose default is its baseline.
C5_DefaultsEncodeToBaseline ==
    (Built /\ last.inputs = ideal_defaults) =>
        /\ \A i \in DOMAIN last.ret.columns :
              last.ret.columns[i] \in Range(NumericKeys) =>
                  last.ret.values[i] = ExpectedDefaults[last.ret.columns[i]]
        /\ feature_names = default_features =>
              /\ Range(NumericKeys) \subseteq Range(last.ret.columns)
              /\ \A g \in Range(GroupKeys) :
                    DefaultIsBaseline(g) =>
                        \A i \in GroupPositions(last.ret, g) : last.ret.values[i] = ZERO

\* C5 witness: the defaults encoded under the hardcoded schema; grade A and
\* flag N are baselines there, OWN is not.
C5_Witness ==
    /\ Built
    /\ last.inputs = ideal_defaults
    /\ feature_names = default_features
    /\ DefaultIsBaseline(loan_grade)
    /\ DefaultIsBaseline(cb_person_default_on_file)
    /\ ~DefaultIsBaseline(person_home_ownership)
    /\ \E i \in GroupPositions(last.ret, person_home_ownership) : last.ret.values[i] = ONE

(***************************************************************************)
(* Risk classification                                                     *)
(***************************************************************************)
\* The thresholds 0.2 and 0.5, in ten-thousandths.
LowThreshold == 2000
MediumThreshold == 5000

\* Both comparisons inclusive.
risk_category_inclusive(proba) ==
    IF proba <= LowThreshold THEN <<"Low Risk", "#2e7d32">>
    ELSE IF proba <= MediumThreshold THEN <<"Medium Risk", "#f9a825">>
    ELSE <<"High Risk", "#c62828">>

\* CreditRiskModel.risk_category: (label, color)
risk_category(proba) ==
    IF proba < LowThreshold THEN <<"Low Risk", "#2e7d32">>
    ELSE IF proba < MediumThreshold THEN <<"Medium Risk", "#f9a825">>
    ELSE <<"High Risk", "#c62828">>

\* Probabilities in [0, 1]: a coarse grid, and every ten-thousandth around
\* the two thresholds.
Probabilities ==
    {250 * k : k \in 0..40} \cup (1995..2005) \cup (4995..5005)

RiskCategory(proba) ==
    /\ last' = [op |-> "risk_category", proba |-> proba, ret |-> risk_category(proba)]
    /\ UNCHANGED <<model, feature_names, shap, rng, bgFirst>>

NextRisk == \E proba \in Probabilities : RiskCategory(proba)

SpecRisk == InitLoaded /\ [][NextRisk]_vars

Tier(label) ==
    CASE label = "Low Risk" -> 1
      [] label = "Medium Risk" -> 2
      [] label = "High Risk" -> 3

\* C3: risk_category gives Low Risk below 0.20, Medium Risk from 0.20 up to
\* but excluding 0.50, High Risk from 0.50 on; a label always comes with the
\* same colour; a larger probability never gets a lower tier.
C3_RiskTiers ==
    last.op = "risk_category" =>
        /\ last.proba < 2000 => last.ret[1] = "Low Risk"
        /\ (2000 <= last.proba /\ last.proba < 5000) => last.ret[1] = "Medium Risk"
        /\ last.proba >= 5000 => last.ret[1] = "High Risk"
        /\ \A q \in Probabilities :
              /\ q >= last.proba => Tier(risk_category(q)[1]) >= Tier(last.ret[1])
              /\ risk_category(q)[1] = last.ret[1] => risk_category(q)[2] = last.ret[2]

\* C3 witness: the probability 0.2 itself, classified Medium Risk.
C3_Witness ==
    /\ last.op = "risk_category"
    /\ last.proba = 2000
    /\ last.ret = <<"Medium Risk", "#f9a825">>

(***************************************************************************)
(* Background sampler                                                      *)
(*                                                                         *)
(* The generator is a counter-based one: its state is the seed and the     *)
(* number of draws made; a draw is a fixed function of both.               *)
(***************************************************************************)
Seed == 42
BackgroundN == 200

\* np.random.default_rng(seed)
default_rng(seed) == [seed |-> seed, counter |-> 0]

\* The generator after k more draws.
Advance(g, k) == [g EXCEPT !.counter = @ + k]

\* The raw value of the next draw of g.
Raw(g) == LET x == g.seed * 31 + g.counter IN (x * x + 75 * x + 74) % 65537

\* rng.normal(loc, scale): loc plus a whole number of scales in -3..3
normal(g, loc, scale) == loc + ((Raw(g) % 7) - 3) * scale

\* np.clip
clip(v, lo, hi) == IF v < lo THEN lo ELSE IF v > hi THEN hi ELSE v

\* rng.choice(opts)
choice(g, opts) == opts[(Raw(g) % Len(opts)) + 1]

home_opts == << <<"OWN">>, <<"MORTGAGE">>, <<"RENT">>, <<"OTHER">> >>
intent_opts ==
    << <<"DEBTCONSOLIDATION">>, <<"HOMEIMPROVEMENT">>, <<"EDUCATION">>,
       <<"MEDICAL">>, <<"PERSONAL">>, <<"VENTURE">> >>
grade_opts == << <<"A">>, <<"B">>, <<"C">>, <<"D">>, <<"E">>, <<"F">>, <<"G">> >>
cb_opts == << <<"N">>, <<"Y">> >>

DrawsPerRow == Len(NumericKeys) + Len(GroupKeys)

\* One sample of the loop of _make_background, g being the generator before
\* its first draw; the draws are made in the order the dict is written.
sample(g) ==
    LET defaults == ideal_defaults
        mean(k) == Float(defaults[k])
    IN  person_age :>
            FloatVal(clip(normal(Advance(g, 0), mean(person_age), 800), 1800, 9000))
        @@ person_income :>
            FloatVal(clip(normal(Advance(g, 1), mean(person_income), 3000000),
                          1000000, 30000000))
        @@ person_emp_length :>
            FloatVal(clip(normal(Advance(g, 2), mean(person_emp_length), 300), 0, 4000))
        @@ loan_amnt :>
            FloatVal(clip(normal(Advance(g, 3), mean(loan_amnt), 800000), 50000, 10000000))
        @@ loan_int_rate :>
            FloatVal(clip(normal(Advance(g, 4), mean(loan_int_rate), 500), 100, 4000))
        @@ loan_percent_income :>
            FloatVal(clip(normal(Advance(g, 5), mean(loan_percent_income), 8), 0, 100))
        @@ cb_person_cred_hist_length :>
            FloatVal(clip(normal(Advance(g, 6), mean(cb_person_cred_hist_length), 500),
                          0, 4000))
        @@ person_home_ownership :> choice(Advance(g, 7), home_opts)
        @@ loan_intent :> choice(Advance(g, 8), intent_opts)
        @@ loan_grade :> choice(Advance(g, 9), grade_opts)
        @@ cb_person_default_on_file :> choice(Advance(g, 10), cb_opts)

\* A generator kept from one call to the next.
BgGenerator_carried == rng

\* The generator _make_background draws from: a new one, seeded with 42.
BgGenerator == default_rng(Seed)

\* _make_background(n), n >= 1: the matrix it returns.
_make_background(n) ==
    LET g0 == BgGenerator
    IN  [columns |-> feature_names,
         rows |-> [k \in 1..n |->
             build_feature_vector(sample(Advance(g0, DrawsPerRow * (k - 1)))).values]]

\* The generator of _make_background(n) when the call returns.
GeneratorAfterBackground(n) == Advance(BgGenerator, DrawsPerRow * n)

(***************************************************************************)
(* Prediction and attribution                                              *)
(*                                                                         *)
(* The classifier and the attribution library are outside the repository:  *)
(* what they answer in one call is the record ext,                         *)
(*   ext.proba, ext.pred   the classifier's answers for the encoded row,   *)
(*   ext.tree, ext.generic what the tree-aware and the generic explainer   *)
(*                         do: [ok |-> FALSE] (raises) or [ok |-> TRUE,    *)
(*                         shap_values, base], one value per feature.      *)
(***************************************************************************)
Abs(v) == IF v < 0 THEN -v ELSE v

\* predict_proba(inputs): (proba, pred), or the exception float() raises
predict_proba(inputs, ext) ==
    IF BuildRaises(inputs)
    THEN [raised |-> TRUE, error |-> "could not convert to float"]
    ELSE [raised |-> FALSE, X_row |-> build_feature_vector(inputs),
          ret |-> <<ext.proba, ext.pred>>]

\* Ordering by the signed value.
SortKey_signed(rec) == rec.shap_value

\* The column sort_values orders by.
SortKey(rec) == rec.abs_shap

\* rec goes before e in descending order; tieFirst decides equal keys, which
\* the unstable sort leaves in either order.
GoesBefore(rec, e, tieFirst) ==
    \/ SortKey(rec) > SortKey(e)
    \/ SortKey(rec) = SortKey(e) /\ tieFirst

InsertDescending(rec, sorted, tieFirst) ==
    LET k == Cardinality({i \in DOMAIN sorted : ~GoesBefore(rec, sorted[i], tieFirst)})
    IN  SubSeq(sorted, 1, k) \o <<rec>> \o SubSeq(sorted, k + 1, Len(sorted))

RECURSIVE sort_values(_, _)
\* df.sort_values("abs_shap", ascending=False).reset_index(drop=True)
sort_values(df, tieFirst) ==
    IF df = <<>> THEN <<>>
    ELSE InsertDescending(Head(df), sort_values(Tail(df), tieFirst), tieFirst)

\* shap_values[1] of a list, else the array flattened
shap_arr(shap_values) ==
    IF shap_values[1] = "list" THEN shap_values[2][2] ELSE shap_values[2]

\* The explainers constructed and called, in order: the generic one in the
\* except branch of the tree-aware attempt.
ExplainersTried(ext) ==
    <<"TreeExplainer">> \o (IF ext.tree.ok THEN <<>> ELSE <<"Explainer">>)

\* The generic explainer's result preferred whenever it has one.
ExplainerUsed_generic(ext) == IF ext.generic.ok THEN ext.generic ELSE ext.tree

\* The attempt whose shap_values and base_value the call goes on with.
ExplainerUsed(ext) == IF ext.tree.ok THEN ext.tree ELSE ext.generic

\* explain_shap(inputs): (df, meta) or an exception; attempts lists the
\* explainers tried, rng is the generator state when it ends.
explain_shap(inputs, ext) ==
    IF shap = "None"
    THEN [raised |-> TRUE, error |-> "SHAP is not installed", attempts |-> <<>>,
          rng |-> rng]
    ELSE IF BuildRaises(inputs)
    THEN [raised |-> TRUE, error |-> "could not convert to float", attempts |-> <<>>,
          rng |-> rng]
    ELSE
    LET X_row == build_feature_vector(inputs)
        \* background = self._make_background(n=200), handed to the explainer
        after == GeneratorAfterBackground(BackgroundN)
        attempts == ExplainersTried(ext)
        used == ExplainerUsed(ext)
    IN  IF ~used.ok
        THEN [raised |-> TRUE, error |-> "Failed to compute SHAP values",
              attempts |-> attempts, rng |-> after]
        ELSE
        LET arr == shap_arr(used.shap_values)
            df == [i \in DOMAIN feature_names |->
                      [feature |-> feature_names[i],
                       shap_value |-> arr[i],
                       abs_shap |-> Abs(arr[i])]]
            proba == predict_proba(inputs, ext).ret[1]
        IN  [raised |-> FALSE,
             df |-> sort_values(df, ext.tieFirst),
             meta |-> [base_value |-> used.base, prediction_probability |-> proba],
             attempts |-> attempts,
             shap_arr |-> arr,
             rng |-> after]

(***************************************************************************)
(* What the classifier and the attribution library may answer              *)
(***************************************************************************)
\* Attribution vectors for n features, values in -3..3.
ShapVectors(n) ==
    { [i \in 1..n |-> ((c[1] * i + c[2]) % 7) - 3] : c \in {<<3, 1>>, <<0, 5>>} }

Raises == [ok |-> FALSE]

Attributions(n) ==
    { [tree |-> [ok |-> TRUE, shap_values |-> <<"array", v>>, base |-> 1200],
       generic |-> Raises] : v \in ShapVectors(n) }
    \cup { [tree |-> [ok |-> TRUE,
                      shap_values |-> <<"list", <<[i \in 1..n |-> -v[i]], v>> >>,
                      base |-> 1200],
            generic |-> Raises] : v \in ShapVectors(n) }
    \cup { [tree |-> Raises,
            generic |-> [ok |-> TRUE, shap_values |-> <<"array", v>>, base |-> 3000]] :
           v \in ShapVectors(n) }
    \cup { [tree |-> Raises, generic |-> Raises] }

\* pred is the label the classifier derives from its own probability.
Externals ==
    { [proba |-> p, pred |-> IF p >= 5000 THEN 1 ELSE 0, tree |-> a.tree,
       generic |-> a.generic, tieFirst |-> t] :
        p \in {1999, 5000}, a \in Attributions(Len(feature_names)), t \in BOOLEAN }

(***************************************************************************)
(* api.py: the served interface                                            *)
(***************************************************************************)
TopK == 20

\* JSON values as Python objects
JNull == <<"null">>
JObject(f) == <<"object", f>>
JArray(a) == <<"array", a>>
JString(str) == <<"string", str>>
JNumber(v) == <<"number", v>>

\* Python truth of a decoded JSON value
Truthy(v) ==
    CASE v[1] = "null" -> FALSE
      [] v[1] = "object" -> DOMAIN v[2] # {}
      [] v[1] = "array" -> DOMAIN v[2] # {}
      [] v[1] = "string" -> v[2] # ""
      [] v[1] = "number" -> v[2] # 0

\* Request bodies: none at all, an empty one, text that is not JSON, and
\* JSON values of every shape.
Payloads ==
    { [kind |-> "no_body"], [kind |-> "empty_body"], [kind |-> "not_json"] }
    \cup { [kind |-> "json", value |-> v] :
            v \in { JNull, JObject(NoAttrs), JArray(<<>>), JString(""), JNumber(0),
                    JArray(<<1, 2>>), JString("abc"), JNumber(5),
                    JObject(person_age :> JObject(NoAttrs)),
                    JObject(ideal_defaults),
                    JObject(PartialNumerics @@ loan_intent :> <<"improvement">>
                            @@ cb_person_default_on_file :> <<"y">>) } }

\* request.json: the decoded body, or the HTTP error the framework aborts
\* the request with.  A request without a JSON body gives None, 400 or 415
\* depending on the framework version.
RequestJson(payload) ==
    CASE payload.kind = "json" -> { <<"value", payload.value>> }
      [] payload.kind = "no_body" -> { <<"value", JNull>>, <<"abort", 415>>, <<"abort", 400>> }
      [] payload.kind = "empty_body" -> { <<"abort", 400>> }
      [] payload.kind = "not_json" -> { <<"abort", 400>> }

\* A guard that lets every request through.
ModelNotLoaded_never == FALSE

\* `if not model`
ModelNotLoaded == model = "None"

\* First k records of a frame.
head(df, k) == SubSeq(df, 1, IF Len(df) < k THEN Len(df) ELSE k)

\* The body of predict() from `data = request.json` on: the response, the
\* calls made on the model, and the generator state afterwards.
predict(payload, rj, ext) ==
    IF rj[1] = "abort"
    THEN [status |-> rj[2], body |-> [error |-> "aborted by the framework"],
          calls |-> <<>>, rng |-> rng]
    ELSE IF ~Truthy(rj[2])
    THEN [status |-> 400, body |-> [error |-> "No input data provided"],
          calls |-> <<>>, rng |-> rng]
    ELSE IF rj[2][1] # "object"
    THEN [status |-> 500, body |-> [error |-> "object has no attribute 'get'"],
          calls |-> <<"predict_proba">>, rng |-> rng]
    ELSE
    LET data == rj[2][2]
        pp == predict_proba(data, ext)
    IN  IF pp.raised
        THEN [status |-> 500, body |-> [error |-> pp.error],
              calls |-> <<"predict_proba">>, rng |-> rng]
        ELSE
        LET proba == pp.ret[1]
            pred == pp.ret[2]
            category == risk_category(proba)
            ex == explain_shap(data, ext)
            explained == [f \in DOMAIN ex \ {"rng"} |-> ex[f]]
            calls == <<"predict_proba", "risk_category", "explain_shap">>
        IN  IF ex.raised
            THEN [status |-> 500, body |-> [error |-> ex.error], calls |-> calls,
                  base |-> <<proba, pred, category>>, explain |-> explained, rng |-> ex.rng]
            ELSE [status |-> 200,
                  body |-> [probability |-> proba,
                            prediction |-> pred,
                            risk_label |-> category[1],
                            risk_color |-> category[2],
                            shap_values |-> head(ex.df, TopK),
                            base_value |-> ex.meta.base_value,
                            prediction_probability |-> ex.meta.prediction_probability],
                  calls |-> calls, base |-> <<proba, pred, category>>,
                  explain |-> explained, rng |-> ex.rng]

\* Module start: the model object, or None when constructing it raised.
Init ==
    /\ model \in {"None", "Loaded"}
    /\ feature_names \in (IF model = "Loaded" THEN Schemas ELSE {<<>>})
    /\ shap \in {"None", "Installed"}
    /\ rng = NoGenerator
    /\ last = NoCall
    /\ bgFirst = NoBackground

\* GET /api/defaults
ApiGetDefaults ==
    /\ last' = IF ModelNotLoaded
               THEN [op |-> "get_defaults", status |-> 500,
                     body |-> [error |-> "Model not loaded"], calls |-> <<>>]
               ELSE [op |-> "get_defaults", status |-> 200,
                     body |-> ideal_defaults, calls |-> <<"ideal_defaults">>]
    /\ UNCHANGED <<model, feature_names, shap, rng, bgFirst>>

\* POST /api/predict
ApiPredict(payload, rj, ext) ==
    /\ rj \in RequestJson(payload)
    /\ IF ModelNotLoaded
       THEN /\ last' = [op |-> "predict", payload |-> payload, status |-> 500,
                        body |-> [error |-> "Model not loaded"], calls |-> <<>>]
            /\ rng' = rng
       ELSE LET r == predict(payload, rj, ext)
            IN  /\ last' = [op |-> "predict", payload |-> payload]
                           @@ [f \in DOMAIN r \ {"rng"} |-> r[f]]
                /\ rng' = r.rng
    /\ UNCHANGED <<model, feature_names, shap, bgFirst>>

Next ==
    \/ ApiGetDefaults
    \/ \E payload \in Payloads, ext \in Externals :
           \E rj \in RequestJson(payload) : ApiPredict(payload, rj, ext)

Spec == Init /\ [][Next]_vars

(***************************************************************************)
(* Served interface: claims                                                *)
(***************************************************************************)
Predicted == last.op = "predict"

\* C6: on /api/predict, when predict_proba and risk_category succeeded and
\* the attribution step failed, the response still carries the probability,
\* the binary prediction and the risk label and colour.
C6_PredictionSurvivesAttributionFailure ==
    ( /\ Predicted
      /\ model = "Loaded"
      /\ "explain_shap" \in Range(last.calls)
      /\ last.explain.raised ) =>
        /\ last.status = 200
        /\ {"probability", "prediction", "risk_label", "risk_color"} \subseteq DOMAIN last.body
        /\ last.body.probability = last.base[1]
        /\ last.body.prediction = last.base[2]
        /\ <<last.body.risk_label, last.body.risk_color>> = last.base[3]

\* C7: once constructing the model failed, every request, whatever its
\* payload, is answered "Model not loaded" without any call on the model,
\* and the model stays unloaded.
C7_NotLoadedForever ==
    [][ model = "None" =>
            /\ model' = "None"
            /\ last'.body = [error |-> "Model not loaded"]
            /\ last'.status = 500
            /\ last'.calls = <<>> ]_vars

\* C7 witness: with the model not loaded, a well-formed prediction request
\* answered "Model not loaded".
C7_Witness ==
    /\ model = "None"
    /\ Predicted
    /\ last.payload = [kind |-> "json", value |-> JObject(ideal_defaults)]
    /\ last.body = [error |-> "Model not loaded"]

\* The payload is missing, or is not a flat key-value record.
Malformed(payload) ==
    \/ payload.kind # "json"
    \/ payload.value[1] # "object"
    \/ \E k \in DOMAIN payload.value[2] : payload.value[2][k][1] \in {"object", "array"}

\* C8: with the model loaded, a missing or malformed payload is answered
\* with a 4xx status.
C8_MalformedPayloadIsClientError ==
    (Predicted /\ model = "Loaded" /\ Malformed(last.payload)) =>
        last.status \in 400..499

Min(a, b) == IF a < b THEN a ELSE b

\* C9: explain_shap returns one record per feature in non-increasing order
\* of absolute contribution; the response holds the first min(20, n) of
\* them, with the explainer's baseline and the predicted probability.
C9_TopContributionsDescending ==
    (Predicted /\ last.status = 200) =>
        LET df == last.explain.df
            n == Len(feature_names)
            top == last.body.shap_values
        IN  /\ last.explain.shap_arr \in ShapVectors(n)
            /\ Len(df) = n
            /\ Range(df) =
                  { [feature |-> feature_names[i],
                     shap_value |-> last.explain.shap_arr[i],
                     abs_shap |-> Abs(last.explain.shap_arr[i])] : i \in 1..n }
            /\ \A i \in 1..(n - 1) : Abs(df[i].shap_value) >= Abs(df[i + 1].shap_value)
            /\ Len(top) = Min(20, n)
            /\ \A i \in 1..Len(top) : top[i] = df[i]
            /\ \A i \in 1..Len(top) : \A j \in (Len(top) + 1)..n :
                  Abs(top[i].shap_value) >= Abs(df[j].shap_value)
            /\ last.body.base_value =
                  (IF last.explain.attempts = <<"TreeExplainer">> THEN 1200 ELSE 3000)
            /\ last.body.prediction_probability = last.base[1]

\* C9 witness: more than 20 features, 20 records returned, a negative
\* contribution ranked above a smaller positive one.
C9_Witness ==
    /\ Predicted
    /\ last.status = 200
    /\ Len(feature_names) > 20
    /\ Len(last.body.shap_values) = 20
    /\ \E i, j \in 1..20 :
          /\ i < j
          /\ last.body.shap_values[i].shap_value < 0
          /\ last.body.shap_values[j].shap_value > 0
          /\ last.body.shap_values[j].shap_value < -last.body.shap_values[i].shap_value

(***************************************************************************)
(* CreditRiskModel called directly: background generation between          *)
(* predictions and explanations                                            *)
(***************************************************************************)
MaxBackgroundRows == 2

\* model._make_background(n)
MakeBackground(n) ==
    /\ model = "Loaded"
    /\ LET bg == _make_background(n)
       IN  /\ last' = [op |-> "_make_background", n |-> n, ret |-> bg,
                       repeat |-> n \in DOMAIN bgFirst, prev |-> last.op]
           /\ bgFirst' = IF n \in DOMAIN bgFirst THEN bgFirst ELSE bgFirst @@ (n :> bg)
    /\ rng' = GeneratorAfterBackground(n)
    /\ UNCHANGED <<model, feature_names, shap>>

\* model.predict_proba(inputs)
PredictProba(inputs, ext) ==
    /\ model = "Loaded"
    /\ last' = [op |-> "predict_proba", inputs |-> inputs,
                ret |-> predict_proba(inputs, ext)]
    /\ UNCHANGED <<model, feature_names, shap, rng, bgFirst>>

\* model.explain_shap(inputs)
ExplainShap(inputs, ext) ==
    /\ model = "Loaded"
    /\ LET ex == explain_shap(inputs, ext)
       IN  /\ last' = [op |-> "explain_shap", inputs |-> inputs, ext |-> ext,
                       ret |-> [f \in DOMAIN ex \ {"rng"} |-> ex[f]]]
           /\ rng' = ex.rng
    /\ UNCHANGED <<model, feature_names, shap, bgFirst>>

\* One probability and one tie order are enough between background calls.
BackgroundExternals == {ext \in Externals : ext.proba = 1999 /\ ext.tieFirst}

NextBackground ==
    \/ \E n \in 1..MaxBackgroundRows : MakeBackground(n)
    \/ \E ext \in BackgroundExternals : PredictProba(ideal_defaults, ext)
    \/ \E inputs \in {ideal_defaults, NoAttrs}, ext \in BackgroundExternals :
           ExplainShap(inputs, ext)

SpecBackground == InitLoaded /\ [][NextBackground]_vars

\* C10: every call of _make_background(n) returns the n-row matrix the
\* first call with that n returned, whatever was called in between, and
\* leaves behind a generator that made only this call's draws from seed 42.
C10_BackgroundDeterministic ==
    last.op = "_make_background" =>
        /\ last.ret = bgFirst[last.n]
        /\ DOMAIN last.ret.rows = 1..last.n
        /\ rng = [seed |-> 42, counter |-> 11 * last.n]

\* C10 witness: a second two-row background made right after an
\* explanation, which generated a background of its own; the two rows differ.
C10_Witness ==
    /\ last.op = "_make_background"
    /\ last.n = 2
    /\ last.repeat
    /\ last.prev = "explain_shap"
    /\ last.ret.rows[1] # last.ret.rows[2]

(***************************************************************************)
(* explain_shap: the order of the attribution attempts                     *)
(***************************************************************************)
\* What the two explainers may do in one call, independently of each other:
\* raise, or return one of two vectors (the tree-aware one also as a list).
ExplainExternals ==
    LET n == Len(feature_names)
        v1 == [i \in 1..n |-> ((3 * i + 1) % 7) - 3]
        v2 == [i \in 1..n |-> ((2 * i + 4) % 7) - 3]
        trees == { Raises,
                   [ok |-> TRUE, shap_values |-> <<"array", v1>>, base |-> 1200],
                   [ok |-> TRUE, shap_values |-> <<"array", v2>>, base |-> 1200],
                   [ok |-> TRUE, shap_values |-> <<"list", <<v2, v1>> >>, base |-> 1200] }
        generics == { Raises,
                      [ok |-> TRUE, shap_values |-> <<"array", v1>>, base |-> 3000],
                      [ok |-> TRUE, shap_values |-> <<"array", v2>>, base |-> 3000] }
    IN  { [proba |-> 1999, pred |-> 0, tree |-> t, generic |-> g, tieFirst |-> b] :
            t \in trees, g \in generics, b \in BOOLEAN }

NextExplain ==
    \E inputs \in {ideal_defaults, NoAttrs}, ext \in ExplainExternals :
        ExplainShap(inputs, ext)

SpecExplain == InitLoaded /\ [][NextExplain]_vars

\* The vector an explainer's result stands for: the array, or the second
\* element of a list.
ValuesOf(outcome) ==
    IF outcome.shap_values[1] = "list"
    THEN outcome.shap_values[2][2]
    ELSE outcome.shap_values[2]

\* C11: in one explain_shap call the tree-aware explainer is tried first;
\* the generic explainer is tried if and only if the tree-aware attempt
\* raised; a successful tree-aware attempt supplies the values returned;
\* when both raise the call raises the RuntimeError "Failed to compute SHAP
\* values" and returns no attribution.
C11_AttemptsOrdered ==
    last.op = "explain_shap" =>
        LET tree == last.ext.tree
            generic == last.ext.generic
            r == last.ret
        IN  /\ Len(r.attempts) >= 1
            /\ r.attempts[1] = "TreeExplainer"
            /\ \A i \in 2..Len(r.attempts) : r.attempts[i] = "Explainer"
            /\ Len(r.attempts) <= 2
            /\ (Len(r.attempts) = 2) <=> ~tree.ok
            /\ tree.ok =>
                  /\ ~r.raised
                  /\ r.shap_arr = ValuesOf(tree)
                  /\ r.meta.base_value = tree.base
            /\ (~tree.ok /\ generic.ok) =>
                  /\ ~r.raised
                  /\ r.shap_arr = ValuesOf(generic)
                  /\ r.meta.base_value = generic.base
            /\ (~tree.ok /\ ~generic.ok) =>
                  /\ r.raised
                  /\ r.error = "Failed to compute SHAP values"
                  /\ {"df", "meta"} \cap DOMAIN r = {}
            /\ ~r.raised =>
                  {r.df[i].shap_value : i \in DOMAIN r.df} = Range(r.shap_arr)

\* C11 witness: both explainers would succeed, with different values; only
\* the tree-aware one is tried and its values are returned.
C11_Witness ==
    /\ last.op = "explain_shap"
    /\ last.ext.tree.ok
    /\ last.ext.generic.ok
    /\ ValuesOf(last.ext.tree) # ValuesOf(last.ext.generic)
    /\ last.ret.attempts = <<"TreeExplainer">>
    /\ last.ret.shap_arr = ValuesOf(last.ext.tree)
    /\ last.ret.meta.base_value = 1200

====
